---- MODULE Spec2Model ----
(***************************************************************************)
(* The conversational S.U.P.R.A. engine (src/agents/supra_multi.py): the   *)
(* ConversationState object, the SupraMultiSearchEngine methods that read  *)
(* and write it, and the calls a client makes on them.                     *)
(*                                                                         *)
(* Text is modelled as Python handles it: a string is a sequence of        *)
(* characters, and lower(), strip(), `in`, f-strings and + are computed on *)
(* that sequence.  An ASCII character is the one-character string; a       *)
(* Georgian letter is written by its code point ("U+10EE").  Fields that   *)
(* the code only compares for equality (role, type, status, the status of  *)
(* a response) are TLA+ strings.                                           *)
(***************************************************************************)
EXTENDS Integers, Sequences, FiniteSets, TLC

VARIABLES
  conversation,   \* SupraMultiSearchEngine.conversation, a ConversationState
  response,       \* what the last call returned to the client
  call            \* the last call: its name and arguments, the prompt sent to
                  \* the oracle, the kind of the oracle's reply and the
                  \* number of results in it

vars == <<conversation, response, call>>

----------------------------------------------------------------------------
(* Python string operations *)

Whitespace == {" ", "\t", "\n", "\r"}

\* str.lower() on the letters A..Z
LowerOf ==
  ("A" :> "a") @@ ("B" :> "b") @@ ("C" :> "c") @@ ("D" :> "d") @@ ("E" :> "e") @@
  ("F" :> "f") @@ ("G" :> "g") @@ ("H" :> "h") @@ ("I" :> "i") @@ ("J" :> "j") @@
  ("K" :> "k") @@ ("L" :> "l") @@ ("M" :> "m") @@ ("N" :> "n") @@ ("O" :> "o") @@
  ("P" :> "p") @@ ("Q" :> "q") @@ ("R" :> "r") @@ ("S" :> "s") @@ ("T" :> "t") @@
  ("U" :> "u") @@ ("V" :> "v") @@ ("W" :> "w") @@ ("X" :> "x") @@ ("Y" :> "y") @@
  ("Z" :> "z")

UpperCase == DOMAIN LowerOf

\* one character of str.lower(): the other characters of the model (lower
\* case letters, digits, punctuation, Georgian letters) have no lower case
lower_char(ch) == IF ch \in UpperCase THEN LowerOf[ch] ELSE ch

\* str.lower()
lower(s) == [i \in 1..Len(s) |-> lower_char(s[i])]

\* str.lstrip()
RECURSIVE lstrip(_)
lstrip(s) ==
  IF s = <<>> THEN s
  ELSE IF Head(s) \in Whitespace THEN lstrip(Tail(s)) ELSE s

\* str.rstrip()
RECURSIVE rstrip(_)
rstrip(s) ==
  IF s = <<>> THEN s
  ELSE IF s[Len(s)] \in Whitespace THEN rstrip(SubSeq(s, 1, Len(s) - 1)) ELSE s

\* strip() left out: `if not user_input:`
strip_missing(s) == s

\* str.strip(): leading and trailing whitespace removed
strip(s) == rstrip(lstrip(s))

\* `needle in hay` on strings: needle is a contiguous part of hay
contains(hay, needle) ==
  \E i \in 0..(Len(hay) - Len(needle)) : SubSeq(hay, i + 1, i + Len(needle)) = needle

\* `x in xs` on a list
in_list(x, xs) == \E i \in 1..Len(xs) : xs[i] = x

\* any(p in hay for p in phrases)
contains_any(hay, phrases) == \E i \in 1..Len(phrases) : contains(hay, phrases[i])

DigitChars == <<"0","1","2","3","4","5","6","7","8","9">>

\* str(n) of an integer n >= 0, as the f-strings f"#{i}" format it
RECURSIVE str_int(_)
str_int(n) ==
  IF n < 10 THEN <<DigitChars[n + 1]>>
  ELSE str_int(n \div 10) \o <<DigitChars[(n % 10) + 1]>>

\* seq[:k] of Python: the first k items, or all but the last -k when k < 0
slice_to(s, k) ==
  LET stop == IF k >= 0 THEN (IF k < Len(s) THEN k ELSE Len(s))
              ELSE (IF Len(s) + k > 0 THEN Len(s) + k ELSE 0)
  IN SubSeq(s, 1, stop)

----------------------------------------------------------------------------
(* ConversationState *)

\* ConversationState.__init__
ConversationState ==
  [conversation_history |-> <<>>,
   current_results      |-> <<>>,
   excluded_dishes      |-> <<>>,
   liked_dishes         |-> <<>>,
   all_suggested_dishes |-> <<>>,
   user_preferences     |-> <<>>,
   initial_query        |-> <<>>,
   turn_count           |-> 0,
   is_satisfied         |-> FALSE]

\* result['restaurant_name'] and result['dish_name'] do not raise KeyError
has_names(result) ==
  /\ "restaurant_name" \in DOMAIN result
  /\ "dish_name" \in DOMAIN result

\* f"{restaurant_name}_{dish_name}"
dish_key(restaurant_name, dish_name) == restaurant_name \o <<"_">> \o dish_name

\* the key of a result that has both names
key_of(result) == dish_key(result.restaurant_name, result.dish_name)

\* ConversationState.add_user_message
add_user_message(c, message, message_type) ==
  [c EXCEPT !.conversation_history =
     Append(@, [role |-> "user", content |-> message,
                type |-> message_type, turn |-> c.turn_count])]

\* add_assistant_message without its loop over results
track_suggested_skipped(suggested, results) ==
  [all_suggested_dishes |-> suggested, raised |-> FALSE]

\* add_assistant_message appending every key, also one already there
RECURSIVE track_suggested_repeated(_, _)
track_suggested_repeated(suggested, results) ==
  IF results = <<>> THEN [all_suggested_dishes |-> suggested, raised |-> FALSE]
  ELSE IF ~has_names(Head(results))
       THEN [all_suggested_dishes |-> suggested, raised |-> TRUE]
       ELSE track_suggested_repeated(Append(suggested, key_of(Head(results))),
                                     Tail(results))

\* the loop of add_assistant_message over results: each key is appended to
\* all_suggested_dishes unless it is there; a result without a name raises
\* KeyError and leaves what the loop has appended so far
RECURSIVE track_suggested(_, _)
track_suggested(suggested, results) ==
  IF results = <<>> THEN [all_suggested_dishes |-> suggested, raised |-> FALSE]
  ELSE IF ~has_names(Head(results))
       THEN [all_suggested_dishes |-> suggested, raised |-> TRUE]
       ELSE track_suggested(
              IF in_list(key_of(Head(results)), suggested) THEN suggested
              ELSE Append(suggested, key_of(Head(results))),
              Tail(results))

\* ConversationState.add_assistant_message: [conv, raised]
add_assistant_message(c, results) ==
  LET t == track_suggested(c.all_suggested_dishes, results)
  IN [conv |-> [c EXCEPT
                  !.conversation_history =
                     Append(@, [role |-> "assistant", content |-> results,
                                turn |-> c.turn_count]),
                  !.current_results = results,
                  !.all_suggested_dishes = t.all_suggested_dishes],
      raised |-> t.raised]

\* ConversationState.exclude_dish
exclude_dish(c, dish_name, restaurant_name) ==
  IF in_list(dish_key(restaurant_name, dish_name), c.excluded_dishes) THEN c
  ELSE [c EXCEPT !.excluded_dishes = Append(@, dish_key(restaurant_name, dish_name))]

\* ConversationState.like_dish, for a dish_dict that has both names
like_dish(c, dish_dict) ==
  IF \E i \in 1..Len(c.liked_dishes) : key_of(c.liked_dishes[i]) = key_of(dish_dict)
  THEN c
  ELSE [c EXCEPT !.liked_dishes = Append(@, dish_dict)]

\* like_dish called on each dish of a list in turn
RECURSIVE like_each(_, _)
like_each(c, dishes) ==
  IF dishes = <<>> THEN c ELSE like_each(like_dish(c, Head(dishes)), Tail(dishes))

----------------------------------------------------------------------------
(* The phrase tables of the source *)

\* _detect_satisfaction: strong_satisfaction
strong_satisfaction ==
  << <<"p","e","r","f","e","c","t",","," ","t","h","a","n","k"," ","y","o","u">>,
     <<"t","h","a","t","'","s"," ","p","e","r","f","e","c","t">>,
     <<"p","e","r","f","e","c","t"," ","t","h","a","n","k","s">>,
     <<"t","h","e","s","e"," ","a","r","e"," ","p","e","r","f","e","c","t">>,
     <<"i","'","m"," ","s","a","t","i","s","f","i","e","d">>,
     <<"t","h","a","t","'","s"," ","a","l","l">>,
     <<"i","'","m"," ","d","o","n","e">>,
     <<"t","h","a","t","'","s"," ","e","n","o","u","g","h">>,
     <<"o","r","d","e","r"," ","t","h","e","s","e">>,
     <<"i","'","l","l"," ","o","r","d","e","r"," ","t","h","e","s","e">>,
     <<"b","o","o","k"," ","t","h","e","s","e">>,
     <<"r","e","s","e","r","v","e"," ","t","h","e","s","e">>,
     <<"e","x","a","c","t","l","y"," ","w","h","a","t"," ","i"," ","w","a","n","t","e","d">>,
     <<"t","h","i","s"," ","i","s"," ","w","h","a","t"," ","i"," ","w","a","n","t","e","d">> >>

\* _detect_satisfaction: closing_phrases
closing_phrases ==
  << <<"t","h","a","n","k"," ","y","o","u",","," ","b","y","e">>,
     <<"t","h","a","n","k","s",","," ","g","o","o","d","b","y","e">>,
     <<"t","h","a","t","'","s"," ","a","l","l",","," ","t","h","a","n","k","s">>,
     <<"p","e","r","f","e","c","t",","," ","g","o","o","d","b","y","e">>,
     <<"d","o","n","e",","," ","t","h","a","n","k"," ","y","o","u">> >>

\* _detect_satisfaction: strong_satisfaction + closing_phrases
satisfaction_indicators == strong_satisfaction \o closing_phrases

\* _detect_satisfaction: the short responses ["perfect", "done", "finished", "enough"]
short_satisfaction ==
  << <<"p","e","r","f","e","c","t">>,
     <<"d","o","n","e">>,
     <<"f","i","n","i","s","h","e","d">>,
     <<"e","n","o","u","g","h">> >>

\* preserve_dishes_by_keyword: dish_mappings, in the order of the dict
dish_mappings ==
  << [english_term |-> <<"k","h","a","c","h","a","p","u","r","i">>,
      georgian_terms |-> << <<"U+10EE","U+10D0","U+10ED","U+10D0","U+10DE","U+10E3","U+10E0","U+10D8">> >>],
     [english_term |-> <<"k","h","a","c","h","a","p","u","r","i","s">>,
      georgian_terms |-> << <<"U+10EE","U+10D0","U+10ED","U+10D0","U+10DE","U+10E3","U+10E0","U+10D8">> >>],
     [english_term |-> <<"k","h","i","n","k","a","l","i">>,
      georgian_terms |-> << <<"U+10EE","U+10D8","U+10DC","U+10D9","U+10D0","U+10DA","U+10D8">> >>],
     [english_term |-> <<"l","o","b","i","o">>,
      georgian_terms |-> << <<"U+10DA","U+10DD","U+10D1","U+10D8","U+10DD">> >>],
     [english_term |-> <<"o","s","t","r","i">>,
      georgian_terms |-> << <<"U+10DD","U+10E1","U+10E2","U+10E0","U+10D8">> >>],
     [english_term |-> <<"p","k","h","a","l","i">>,
      georgian_terms |-> << <<"U+10E4","U+10EE","U+10D0","U+10DA","U+10D8">> >>],
     [english_term |-> <<"b","a","d","r","i","j","a","n","i">>,
      georgian_terms |-> << <<"U+10D1","U+10D0","U+10D3","U+10E0","U+10D8","U+10EF","U+10D0","U+10DC","U+10D8">> >>],
     [english_term |-> <<"c","h","e","e","s","e">>,
      georgian_terms |-> << <<"U+10E7","U+10D5","U+10D4","U+10DA","U+10D8">> >>],
     [english_term |-> <<"s","o","u","p">>,
      georgian_terms |-> << <<"U+10E1","U+10E3","U+10DE","U+10D8">> >>],
     [english_term |-> <<"s","a","l","a","d">>,
      georgian_terms |-> << <<"U+10E1","U+10D0","U+10DA","U+10D0","U+10D7","U+10D8">> >>],
     [english_term |-> <<"m","e","a","t">>,
      georgian_terms |-> << <<"U+10EE","U+10DD","U+10E0","U+10EA","U+10D8">>,
                            <<"U+10E1","U+10D0","U+10E5","U+10DD","U+10DC","U+10DA","U+10D8","U+10E1">>,
                            <<"U+10E6","U+10DD","U+10E0","U+10D8","U+10E1">> >>],
     [english_term |-> <<"b","e","e","f">>,
      georgian_terms |-> << <<"U+10E1","U+10D0","U+10E5","U+10DD","U+10DC","U+10DA","U+10D8","U+10E1">> >>],
     [english_term |-> <<"p","o","r","k">>,
      georgian_terms |-> << <<"U+10E6","U+10DD","U+10E0","U+10D8","U+10E1">> >>],
     [english_term |-> <<"v","e","g","e","t","a","r","i","a","n">>,
      georgian_terms |-> << <<"U+10D5","U+10D4","U+10D2","U+10D4","U+10E2","U+10D0","U+10E0","U+10D8","U+10D0","U+10DC","U+10E3","U+10DA","U+10D8">> >>] >>

\* preserve_dishes_by_keyword: preserve_keywords
preserve_keywords ==
  << <<"p","r","e","s","e","r","v","e">>,
     <<"k","e","e","p">>,
     <<"s","a","v","e">>,
     <<"m","a","i","n","t","a","i","n">> >>

\* preserve_dishes_by_keyword: the phrases for "all" or "everything"
preserve_all_phrases ==
  << <<"p","r","e","s","e","r","v","e"," ","a","l","l">>,
     <<"k","e","e","p"," ","a","l","l">>,
     <<"s","a","v","e"," ","a","l","l">>,
     <<"p","r","e","s","e","r","v","e"," ","e","v","e","r","y","t","h","i","n","g">> >>

\* _process_feedback: positive_indicators
positive_indicators ==
  << <<"l","i","k","e"," ","t","h","i","s">>,
     <<"l","o","v","e"," ","t","h","i","s">>,
     <<"g","o","o","d">>,
     <<"g","r","e","a","t">>,
     <<"w","a","n","t"," ","t","h","i","s">>,
     <<"y","e","s">> >>

\* _process_feedback: negative_indicators
negative_indicators ==
  << <<"d","o","n","'","t"," ","l","i","k","e">>,
     <<"n","o","t"," ","i","n","t","e","r","e","s","t","e","d">>,
     <<"r","e","m","o","v","e">>,
     <<"r","e","p","l","a","c","e">>,
     <<"h","a","t","e">>,
     <<"d","i","s","l","i","k","e">>,
     <<"n","o">> >>

----------------------------------------------------------------------------
(* ConversationState.preserve_dishes_by_keyword *)

\* the results whose dish_name holds one of georgian_terms, in list order
matching_results(results, georgian_terms) ==
  SelectSeq(results, LAMBDA r : contains_any(r.dish_name, georgian_terms))

\* the loop over dish_mappings.items(), from entry m on
RECURSIVE preserve_terms(_, _, _)
preserve_terms(c, feedback_lower, m) ==
  IF m > Len(dish_mappings) THEN c
  ELSE preserve_terms(
         IF contains(feedback_lower, dish_mappings[m].english_term)
         THEN like_each(c, matching_results(c.current_results,
                                            dish_mappings[m].georgian_terms))
         ELSE c,
         feedback_lower, m + 1)

\* the loop over preserve_keywords, from word w on
RECURSIVE preserve_words(_, _, _)
preserve_words(c, feedback_lower, w) ==
  IF w > Len(preserve_keywords) THEN c
  ELSE preserve_words(
         IF contains(feedback_lower, preserve_keywords[w])
         THEN preserve_terms(c, feedback_lower, 1)
         ELSE c,
         feedback_lower, w + 1)

\* ConversationState.preserve_dishes_by_keyword
preserve_dishes_by_keyword(c, feedback) ==
  LET c1 == preserve_words(c, lower(feedback), 1)
  IN IF contains_any(lower(feedback), preserve_all_phrases)
     THEN like_each(c1, c1.current_results)
     ELSE c1

----------------------------------------------------------------------------
(* SupraMultiSearchEngine *)

\* SupraMultiSearchEngine._detect_satisfaction
detect_satisfaction(user_input) ==
  LET user_input_lower == strip(lower(user_input))
  IN \/ contains_any(user_input_lower, satisfaction_indicators)
     \/ in_list(user_input_lower, short_satisfaction)

\* f"#{i}" in feedback_lower or f"item {i}" in ... or f"number {i}" in ...
position_mentioned(feedback_lower, i) ==
  \/ contains(feedback_lower, <<"#">> \o str_int(i))
  \/ contains(feedback_lower, <<"i","t","e","m"," ">> \o str_int(i))
  \/ contains(feedback_lower, <<"n","u","m","b","e","r"," ">> \o str_int(i))

\* dish_mentioned after the enumerate loop of _process_feedback
dish_mentioned(c, feedback_lower, result) ==
  \E i \in 1..Len(c.current_results) :
    /\ c.current_results[i] = result
    /\ position_mentioned(feedback_lower, i)

\* the body of the loop of _process_feedback for one result
feedback_on(c, feedback_lower, result) ==
  IF ~dish_mentioned(c, feedback_lower, result) THEN c
  ELSE LET c1 == IF contains_any(feedback_lower, positive_indicators)
                 THEN like_dish(c, result) ELSE c
       IN IF contains_any(feedback_lower, negative_indicators)
          THEN exclude_dish(c1, result.dish_name, result.restaurant_name)
          ELSE c1

\* the loop of _process_feedback over current_results, from result j on
RECURSIVE feedback_loop(_, _, _)
feedback_loop(c, feedback_lower, j) ==
  IF j > Len(c.current_results) THEN c
  ELSE feedback_loop(feedback_on(c, feedback_lower, c.current_results[j]),
                     feedback_lower, j + 1)

\* SupraMultiSearchEngine._process_feedback
process_feedback(c, feedback) ==
  LET c1 == [c EXCEPT !.turn_count = @ + 1]
      c2 == add_user_message(c1, feedback, "feedback")
      c3 == preserve_dishes_by_keyword(c2, feedback)
  IN feedback_loop(c3, lower(feedback), 1)

\* the loop of _remove_duplicates: a result without a name raises KeyError
RECURSIVE dedup_loop(_, _, _)
dedup_loop(results, seen, cleaned) ==
  IF results = <<>> THEN [results |-> cleaned, raised |-> FALSE]
  ELSE IF ~has_names(Head(results)) THEN [results |-> cleaned, raised |-> TRUE]
  ELSE IF key_of(Head(results)) \in seen
       THEN dedup_loop(Tail(results), seen, cleaned)
       ELSE dedup_loop(Tail(results), seen \cup {key_of(Head(results))},
                       Append(cleaned, Head(results)))

\* _remove_duplicates without seen.add(dish_key): nothing is ever seen
RECURSIVE dedup_unseen_loop(_, _)
dedup_unseen_loop(results, cleaned) ==
  IF results = <<>> THEN [results |-> cleaned, raised |-> FALSE]
  ELSE IF ~has_names(Head(results)) THEN [results |-> cleaned, raised |-> TRUE]
  ELSE dedup_unseen_loop(Tail(results), Append(cleaned, Head(results)))

remove_duplicates_unseen(results) == dedup_unseen_loop(results, <<>>)

\* SupraMultiSearchEngine._remove_duplicates: [results, raised]
remove_duplicates(results) == dedup_loop(results, {}, <<>>)

\* r.get("status")
get_status(r) == IF "status" \in DOMAIN r THEN r.status ELSE "None"

\* preserved_results of _search_with_context
preserved_results(results) ==
  SelectSeq(results, LAMBDA r : get_status(r) = "preserved")

\* new_results of _search_with_context
new_results(results) ==
  SelectSeq(results, LAMBDA r : get_status(r) # "preserved")

\* final_results with the new results put first
final_results_new_first(results, limit) ==
  slice_to(new_results(results), limit - Len(preserved_results(results)))
    \o preserved_results(results)

\* final_results before _remove_duplicates
final_results(results, limit) ==
  preserved_results(results)
    \o slice_to(new_results(results), limit - Len(preserved_results(results)))

\* new_dishes_needed of _search_with_context: max(0, limit - preserved_count)
new_dishes_needed(c, limit) ==
  IF limit - Len(c.liked_dishes) > 0 THEN limit - Len(c.liked_dishes) ELSE 0

\* what the prompt of _search_with_context asks the oracle for
prompt_of(c, limit) ==
  IF c.turn_count = 0
  THEN [prompt_type |-> "INITIAL SEARCH", find |-> limit,
        preserve |-> Len(c.liked_dishes)]
  ELSE [prompt_type |-> "REFINEMENT SEARCH", find |-> new_dishes_needed(c, limit),
        preserve |-> Len(c.liked_dishes)]

\* get_conversation_context and liked_dishes_list read dish_name,
\* restaurant_name and dish_price of every liked dish
liked_readable(c) ==
  \A i \in 1..Len(c.liked_dishes) :
    {"dish_name", "restaurant_name", "dish_price"} \subseteq DOMAIN c.liked_dishes[i]

NotCalled == [kind |-> "not_called"]

\* _search_with_context storing the selection before the merge has finished:
\* what _remove_duplicates had cleaned when it raised is kept
search_with_context_stored(c, query, limit, oracle) ==
  IF ~liked_readable(c)
  THEN [conv |-> c, result |-> [status |-> "error", message |-> "KeyError"],
        oracle |-> NotCalled]
  ELSE IF oracle.kind # "json"
  THEN [conv |-> c, result |-> [status |-> "error", message |-> oracle.kind],
        oracle |-> oracle]
  ELSE LET cleaned == remove_duplicates(final_results(oracle.results, limit))
           added   == add_assistant_message(c, cleaned.results)
       IN IF cleaned.raised \/ added.raised
          THEN [conv |-> added.conv,
                result |-> [status |-> "error", message |-> "KeyError"],
                oracle |-> oracle]
          ELSE [conv |-> added.conv,
                result |-> [status |-> "success",
                            data |-> [results |-> cleaned.results]],
                oracle |-> oracle]

\* SupraMultiSearchEngine._search_with_context with the reply `oracle` of
\* generate_content: [conv, result, oracle]
search_with_context(c, query, limit, oracle) ==
  IF ~liked_readable(c)
  THEN [conv |-> c, result |-> [status |-> "error", message |-> "KeyError"],
        oracle |-> NotCalled]
  ELSE IF oracle.kind # "json"
  THEN [conv |-> c, result |-> [status |-> "error", message |-> oracle.kind],
        oracle |-> oracle]
  ELSE LET cleaned == remove_duplicates(final_results(oracle.results, limit))
           added   == add_assistant_message(c, cleaned.results)
       IN IF cleaned.raised
          THEN [conv |-> c, result |-> [status |-> "error", message |-> "KeyError"],
                oracle |-> oracle]
          ELSE IF added.raised
          THEN [conv |-> added.conv,
                result |-> [status |-> "error", message |-> "KeyError"],
                oracle |-> oracle]
          ELSE [conv |-> added.conv,
                result |-> [status |-> "success",
                            data |-> [results |-> cleaned.results]],
                oracle |-> oracle]

\* the first message starting the conversation from a fresh ConversationState
first_message_fresh(c, user_input) ==
  add_user_message([ConversationState EXCEPT
                      !.initial_query = user_input,
                      !.user_preferences = c.user_preferences],
                   user_input, "initial_query")

\* the first-message branch of chat, up to the search
first_message(c, user_input) ==
  add_user_message([c EXCEPT !.initial_query = user_input],
                   user_input, "initial_query")

\* the try block of chat up to the search: the first message starts the
\* conversation, a later one is processed as feedback
chat_begin(c, user_input) ==
  IF c.turn_count = 0 THEN first_message(c, user_input)
  ELSE process_feedback(c, user_input)

\* the rest of the try block of chat, from the search on, c1 being the
\* conversation chat_begin leaves: [conv, response, oracle, prompt]
chat_finish(c1, user_input, limit, oracle) ==
  LET s == search_with_context(c1, user_input, limit, oracle)
  IN [conv |-> s.conv,
      response |->
        IF s.result.status = "success"
        THEN [status |-> "success",
              data |-> s.result.data,
              conversation_complete |-> FALSE,
              conversation_state |->
                [turn_count |-> s.conv.turn_count,
                 liked_dishes_count |-> Len(s.conv.liked_dishes),
                 excluded_dishes_count |-> Len(s.conv.excluded_dishes),
                 total_suggested |-> Len(s.conv.all_suggested_dishes)]]
        ELSE s.result,
      oracle |-> s.oracle,
      prompt |-> IF s.oracle = NotCalled THEN NotCalled ELSE prompt_of(c1, limit)]

\* the try block of chat: [conv, response, oracle, prompt]
chat_search(c, user_input, limit, oracle) ==
  chat_finish(chat_begin(c, user_input), user_input, limit, oracle)

\* the satisfied branch of chat, were it to empty current_results and to
\* count the call as a turn
chat_satisfied_counted(c) ==
  [conv |-> [c EXCEPT !.is_satisfied = TRUE, !.current_results = <<>>,
                      !.turn_count = @ + 1],
   response |-> [status |-> "satisfied",
                 message |-> "Perfect! I'm glad you found exactly what you were looking for. Enjoy your meal!",
                 conversation_complete |-> TRUE,
                 final_selection |-> [liked_dishes |-> c.liked_dishes,
                                      total_turns |-> c.turn_count + 1]],
   oracle |-> NotCalled,
   prompt |-> NotCalled]

\* the satisfied branch of chat
chat_satisfied(c) ==
  [conv |-> [c EXCEPT !.is_satisfied = TRUE],
   response |-> [status |-> "satisfied",
                 message |-> "Perfect! I'm glad you found exactly what you were looking for. Enjoy your meal!",
                 conversation_complete |-> TRUE,
                 final_selection |-> [liked_dishes |-> c.liked_dishes,
                                      total_turns |-> c.turn_count]],
   oracle |-> NotCalled,
   prompt |-> NotCalled]

\* the no-input branch of chat
chat_no_input(c) ==
  [conv |-> c,
   response |-> [status |-> "no_response",
                 message |-> "No input provided",
                 conversation_complete |-> c.is_satisfied],
   oracle |-> NotCalled,
   prompt |-> NotCalled]

\* SupraMultiSearchEngine.chat: [conv, response, oracle, prompt]
chat(c, user_input, limit, oracle) ==
  IF strip(user_input) = <<>> THEN chat_no_input(c)
  ELSE IF detect_satisfaction(user_input) THEN chat_satisfied(c)
  ELSE chat_search(c, user_input, limit, oracle)

\* SupraMultiSearchEngine.get_conversation_state
get_conversation_state(c) ==
  [turn_count            |-> c.turn_count,
   initial_query         |-> c.initial_query,
   user_preferences      |-> c.user_preferences,
   liked_dishes          |-> c.liked_dishes,
   excluded_dishes       |-> c.excluded_dishes,
   current_results_count |-> Len(c.current_results),
   total_suggested       |-> Len(c.all_suggested_dishes),
   is_satisfied          |-> c.is_satisfied]

\* SupraMultiSearchEngine.is_conversation_active
is_conversation_active(c) == ~c.is_satisfied

\* start_new_conversation, were it to reset the session and keep the
\* results, the liked, the excluded and the suggested dishes
start_new_conversation_kept(preferences) ==
  [conversation EXCEPT !.user_preferences = preferences, !.turn_count = 0,
                       !.is_satisfied = FALSE, !.initial_query = <<>>,
                       !.conversation_history = <<>>]

\* SupraMultiSearchEngine.start_new_conversation
start_new_conversation(preferences) ==
  [ConversationState EXCEPT !.user_preferences = preferences]

----------------------------------------------------------------------------
(* The calls of a client, and what the oracle may answer *)

MaxLimit == 2      \* chat is called with limit in 1..MaxLimit

MaxReply == 2      \* the oracle answers with at most MaxReply results

MaxHistory == 3    \* calls that would make conversation_history longer are left out

R1 == <<"R","1">>

R2 == <<"R","2">>

Khinkali == <<"U+10EE","U+10D8","U+10DC","U+10D9","U+10D0","U+10DA","U+10D8">>

Soup == <<"U+10E1","U+10E3","U+10DE","U+10D8">>

\* a result as the OUTPUT FORMAT of the prompt describes it
Dish(restaurant_name, dish_name, dish_price, status) ==
  [restaurant_name |-> restaurant_name, dish_name |-> dish_name,
   dish_price |-> dish_price, status |-> status]

\* a result of the oracle that lacks dish_name
NamelessDish == [restaurant_name |-> R2, dish_price |-> 7, status |-> "new"]

\* the results the oracle chooses from
Pool ==
  { Dish(R1, Khinkali, 12, "new"), Dish(R1, Khinkali, 12, "preserved"),
    Dish(R2, Soup, 9, "new"), Dish(R2, Soup, 9, "preserved"),
    NamelessDish }

SeqsUpTo(S, n) == UNION {[1..k -> S] : k \in 0..n}

\* generate_content raises, or response.text is no JSON, or it is JSON
\* whose "results" is a list of results
OracleReplies ==
  {[kind |-> "raise"], [kind |-> "unparseable"]}
    \cup {[kind |-> "json", results |-> s] : s \in SeqsUpTo(Pool, MaxReply)}

Limits == 1..MaxLimit

Texts ==
  { <<>>,
    <<" "," ">>,
    <<"P","e","r","f","e","c","t"," ">>,
    <<"k","h","i","n","k","a","l","i">>,
    <<"r","e","m","o","v","e"," ","#","2">> }

Preferences == { <<"v","e","g","a","n">> }

NoResponse == [status |-> "none"]

\* chat(user_input) gets past its two early returns, to the try block
reaches_search(user_input) ==
  strip(user_input) # <<>> /\ ~detect_satisfaction(user_input)

Init ==
  /\ conversation = ConversationState
  /\ response = NoResponse
  /\ call = [op |-> "init"]

\* chat(user_input, limit=limit) returns r
Returned(r, user_input, limit) ==
  /\ conversation' = r.conv
  /\ response' = r.response
  /\ call' = [op |-> "chat", user_input |-> user_input, limit |-> limit,
              oracle |-> r.oracle.kind,
              received |-> IF r.oracle.kind = "json"
                           THEN Len(r.oracle.results) ELSE 0,
              prompt |-> r.prompt]

\* await engine.chat(user_input, limit=limit), the oracle answering with one
\* of replies when chat calls it.  Where chat reaches its try block it is
\* chat_search, whose first part does not depend on limit or on the reply.
\* A call that would make conversation_history longer than max_history is
\* left out.
ChatOn(texts, limits, replies, max_history) ==
  \E user_input \in texts :
    IF reaches_search(user_input)
    THEN /\ Len(conversation.conversation_history) < max_history
         /\ LET c1 == chat_begin(conversation, user_input)
            IN \E limit \in limits, oracle \in replies :
                 LET r == chat_finish(c1, user_input, limit, oracle)
                 IN /\ Len(r.conv.conversation_history) <= max_history
                    /\ Returned(r, user_input, limit)
    ELSE \E limit \in limits :
           Returned(chat(conversation, user_input, limit, NotCalled),
                    user_input, limit)

Chat == ChatOn(Texts, Limits, OracleReplies, MaxHistory)

\* engine.start_new_conversation(preferences)
StartNewConversation ==
  \E preferences \in Preferences :
    /\ conversation' = start_new_conversation(preferences)
    /\ response' = NoResponse
    /\ call' = [op |-> "start_new_conversation", preferences |-> preferences]

Next == Chat \/ StartNewConversation

\* a client that calls only chat and start_new_conversation
Spec == Init /\ [][Next]_vars

----------------------------------------------------------------------------
(* A client that also calls the methods of engine.conversation, and         *)
(* _process_feedback, itself.  chat never leaves turn_count = 0 (only       *)
(* _process_feedback increments it, and chat calls _process_feedback only   *)
(* when turn_count is not 0), so under Spec nothing is ever liked or        *)
(* excluded; the operations on liked_dishes and excluded_dishes are         *)
(* exercised here.                                                          *)

\* the dishes this client names, and the results its oracle chooses from
DirectPool == { Dish(R1, Khinkali, 12, "new"), Dish(R2, Soup, 9, "new") }

DirectReplies ==
  {[kind |-> "raise"]}
    \cup {[kind |-> "json", results |-> s] : s \in SeqsUpTo(DirectPool, MaxReply)}

FeedbackTexts ==
  { <<"r","e","m","o","v","e"," ","#","2">>,
    <<"g","o","o","d"," ","#","1">>,
    <<"k","e","e","p"," ","a","l","l">> }

\* a call that returns None
Called(op, args) ==
  /\ response' = NoResponse
  /\ call' = [op |-> op, args |-> args]

\* engine.conversation.exclude_dish(dish_name, restaurant_name)
ExcludeDish ==
  \E d \in DirectPool :
    /\ conversation' = exclude_dish(conversation, d.dish_name, d.restaurant_name)
    /\ Called("exclude_dish", <<d.dish_name, d.restaurant_name>>)

\* engine.conversation.like_dish(dish_dict)
LikeDish ==
  \E d \in DirectPool :
    /\ conversation' = like_dish(conversation, d)
    /\ Called("like_dish", <<d>>)

\* engine.conversation.preserve_dishes_by_keyword(feedback)
PreserveDishesByKeyword ==
  \E feedback \in FeedbackTexts :
    /\ conversation' = preserve_dishes_by_keyword(conversation, feedback)
    /\ Called("preserve_dishes_by_keyword", <<feedback>>)

\* engine._process_feedback(feedback)
ProcessFeedback ==
  \E feedback \in FeedbackTexts :
    /\ Len(conversation.conversation_history) < MaxHistory
    /\ conversation' = process_feedback(conversation, feedback)
    /\ Called("_process_feedback", <<feedback>>)

ChatDirect == ChatOn(FeedbackTexts, {MaxLimit}, DirectReplies, MaxHistory)

NextDirect ==
  \/ ChatDirect
  \/ ExcludeDish
  \/ LikeDish
  \/ PreserveDishesByKeyword
  \/ ProcessFeedback

SpecDirect == Init /\ [][NextDirect]_vars

----------------------------------------------------------------------------
(* A client whose oracle's replies are kept whole, to compare the           *)
(* selection of a turn with the reply it was made from.  Keeping the reply  *)
(* makes every call a state of its own, so this client makes few calls.     *)

MaxRecorded == 2   \* the calls of this client leave at most MaxRecorded messages

RecordedTexts == { <<"k","h","i","n","k","a","l","i">> }

\* await engine.chat(user_input, limit=limit) where chat reaches its try
\* block, the reply of generate_content kept in call.reply
ChatRecorded ==
  \E user_input \in RecordedTexts :
    /\ reaches_search(user_input)
    /\ Len(conversation.conversation_history) < MaxRecorded
    /\ LET c1 == chat_begin(conversation, user_input)
       IN \E limit \in Limits, oracle \in OracleReplies :
            LET r == chat_finish(c1, user_input, limit, oracle)
            IN /\ Len(r.conv.conversation_history) <= MaxRecorded
               /\ conversation' = r.conv
               /\ response' = r.response
               /\ call' = [op |-> "chat", user_input |-> user_input,
                           limit |-> limit, oracle |-> r.oracle.kind,
                           reply |-> r.oracle, prompt |-> r.prompt]

NextRecorded == ChatRecorded \/ StartNewConversation

SpecRecorded == Init /\ [][NextRecorded]_vars

----------------------------------------------------------------------------
(* A client that goes on for several turns: its oracle chooses from fewer   *)
(* results, and its conversation_history may grow longer.                   *)

MaxTurnHistory == 5   \* the calls of this client leave at most MaxTurnHistory messages

TurnTexts ==
  { <<"k","h","i","n","k","a","l","i">>,
    <<"r","e","m","o","v","e"," ","#","2">> }

ChatTurns == ChatOn(TurnTexts, Limits, DirectReplies, MaxTurnHistory)

NextTurns == ChatTurns \/ StartNewConversation

SpecTurns == Init /\ [][NextTurns]_vars

----------------------------------------------------------------------------
(* A client whose feedback refers to the results by position.  chat reaches *)
(* _process_feedback only after turn_count has left 0, which chat itself    *)
(* never brings about, so this client also calls _process_feedback.         *)

PositionTexts ==
  { <<"r","e","m","o","v","e"," ","#","1","2">>,
    <<"r","e","m","o","v","e"," ","i","t","e","m"," ","2">>,
    <<"g","o","o","d"," ","n","u","m","b","e","r"," ","1">> }

\* engine._process_feedback(feedback)
ProcessPositional ==
  \E feedback \in PositionTexts :
    /\ Len(conversation.conversation_history) < MaxHistory
    /\ conversation' = process_feedback(conversation, feedback)
    /\ Called("_process_feedback", <<feedback>>)

ChatPositional == ChatOn(PositionTexts, {MaxLimit}, DirectReplies, MaxHistory)

NextPositional == ChatPositional \/ ProcessPositional

SpecPositional == Init /\ [][NextPositional]_vars

----------------------------------------------------------------------------
(* A client whose feedback says two things at once: to keep the results and *)
(* to remove one, that a result is good and to remove it, or that it is     *)
(* done and to keep the results.                                            *)

MixedTexts ==
  { <<"k","e","e","p"," ","a","l","l",","," ","r","e","m","o","v","e"," ","#","2">>,
    <<"g","o","o","d",","," ","r","e","m","o","v","e"," ","#","1">>,
    <<"i","'","m"," ","d","o","n","e",","," ","k","e","e","p"," ","a","l","l">> }

\* engine._process_feedback(feedback)
ProcessMixed ==
  \E feedback \in MixedTexts :
    /\ Len(conversation.conversation_history) < MaxHistory
    /\ conversation' = process_feedback(conversation, feedback)
    /\ Called("_process_feedback", <<feedback>>)

ChatMixed == ChatOn(MixedTexts, {MaxLimit}, DirectReplies, MaxHistory)

NextMixed == ChatMixed \/ ProcessMixed \/ StartNewConversation

SpecMixed == Init /\ [][NextMixed]_vars

----------------------------------------------------------------------------
(* Two chat calls issued together on one engine, as tasks of one event      *)
(* loop.  A task runs until it suspends or returns.  chat awaits only       *)
(* _search_with_context, which awaits nothing: generate_content is called   *)
(* without await and blocks the loop until the oracle has replied.          *)

MaxTasks == 2   \* chat calls issued together

Tasks == 1..MaxTasks

\* the oracle call as if it were awaited, suspending the task
generate_content_awaited == TRUE

\* response = self.client.models.generate_content(...): whether the task is
\* suspended while the oracle replies
generate_content_suspends == FALSE

InitTasks ==
  /\ conversation = ConversationState
  /\ response = NoResponse
  /\ call = [op |-> "gather",
             tasks |-> [t \in Tasks |-> [pc |-> "ready"]],
             log |-> <<>>]

\* the event loop runs task t: engine.chat(user_input, limit=limit) from its
\* start, or from the oracle call at which it was suspended, until it
\* suspends or returns.  call.log keeps where each turn begins and ends.
RunTask(t) ==
  IF call.tasks[t].pc = "ready"
  THEN \E user_input \in TurnTexts, limit \in Limits :
         IF generate_content_suspends
         THEN /\ conversation' = chat_begin(conversation, user_input)
              /\ response' = response
              /\ call' = [call EXCEPT
                            !.tasks[t] = [pc |-> "awaiting",
                                          user_input |-> user_input,
                                          limit |-> limit],
                            !.log = Append(@, <<t, "begin">>)]
         ELSE \E oracle \in DirectReplies :
                LET r == chat(conversation, user_input, limit, oracle)
                IN /\ conversation' = r.conv
                   /\ response' = r.response
                   /\ call' = [call EXCEPT
                                 !.tasks[t] = [pc |-> "done"],
                                 !.log = @ \o << <<t, "begin">>, <<t, "end">> >>]
  ELSE /\ call.tasks[t].pc = "awaiting"
       /\ \E oracle \in DirectReplies :
            LET r == chat_finish(conversation, call.tasks[t].user_input,
                                 call.tasks[t].limit, oracle)
            IN /\ conversation' = r.conv
               /\ response' = r.response
               /\ call' = [call EXCEPT !.tasks[t] = [pc |-> "done"],
                                       !.log = Append(@, <<t, "end">>)]

NextTasks == \E t \in Tasks : RunTask(t)

SpecTasks == InitTasks /\ [][NextTasks]_vars

----------------------------------------------------------------------------
(* A client whose oracle repeats itself: its replies, kept whole, are       *)
(* longer than the limit and chosen from few results.                       *)

LongReplies ==
  {[kind |-> "json", results |-> s] : s \in SeqsUpTo(DirectPool, MaxReply + 1)}

\* await engine.chat(user_input, limit=limit) where chat reaches its try
\* block, the reply of generate_content kept in call.reply
ChatLong ==
  \E user_input \in RecordedTexts :
    /\ reaches_search(user_input)
    /\ Len(conversation.conversation_history) < MaxTurnHistory
    /\ LET c1 == chat_begin(conversation, user_input)
       IN \E limit \in Limits, oracle \in LongReplies :
            LET r == chat_finish(c1, user_input, limit, oracle)
            IN /\ Len(r.conv.conversation_history) <= MaxTurnHistory
               /\ conversation' = r.conv
               /\ response' = r.response
               /\ call' = [op |-> "chat", user_input |-> user_input,
                           limit |-> limit, oracle |-> r.oracle.kind,
                           reply |-> r.oracle, prompt |-> r.prompt]

NextLong == ChatLong \/ StartNewConversation

SpecLong == Init /\ [][NextLong]_vars

----------------------------------------------------------------------------
(* A session long enough for a search, feedback on it and a second search:  *)
(* the client likes and removes a shown result and then asks again.         *)

ShownTexts ==
  { <<"g","o","o","d",","," ","r","e","m","o","v","e"," ","#","1">>,
    <<"k","h","i","n","k","a","l","i">> }

ProcessShown ==
  \E feedback \in ShownTexts :
    /\ Len(conversation.conversation_history) < MaxTurnHistory
    /\ conversation' = process_feedback(conversation, feedback)
    /\ Called("_process_feedback", <<feedback>>)

ChatShown == ChatOn(ShownTexts, {MaxLimit}, DirectReplies, MaxTurnHistory)

NextShown == ChatShown \/ ProcessShown \/ StartNewConversation

SpecShown == Init /\ [][NextShown]_vars

----------------------------------------------------------------------------
(* The claims *)

\* the identity key of the spec: (restaurant_name, dish_name)
identity(result) == <<result.restaurant_name, result.dish_name>>

\* the text is empty or only whitespace
IsBlank(text) == \A i \in 1..Len(text) : text[i] \in Whitespace

\* the last call was a chat turn that returned success
TurnSucceeded == call.op = "chat" /\ response.status = "success"

\* C1 (Dedup): after any sequence of chat turns, whatever the oracle
\* replied, current_results never holds two items with the same identity
\* key (restaurant_name, dish_name).
C1_Dedup ==
  \A i, j \in 1..Len(conversation.current_results) :
    i # j => identity(conversation.current_results[i])
               # identity(conversation.current_results[j])

\* a turn succeeded whose limit was no less than the number of results the
\* oracle sent, and the selection is shorter than the reply: a duplicate of
\* the reply was removed
C1_Witness ==
  /\ TurnSucceeded
  /\ call.limit >= call.received
  /\ conversation.current_results # <<>>
  /\ Len(conversation.current_results) < call.received

\* C2 (Limit cap): after every successful chat turn the number of items in
\* current_results is at most the limit passed to chat.
C2_LimitCap ==
  TurnSucceeded => Len(conversation.current_results) <= call.limit

\* C3 (Failure non-mutation): a chat turn whose oracle call fails (raises,
\* or returns unparseable output) returns status error and leaves the
\* snapshot of get_conversation_state() as it was before the call.
C3_FailureNonMutation ==
  [][(call'.op = "chat" /\ call'.oracle \in {"raise", "unparseable"})
       => /\ response'.status = "error"
          /\ get_conversation_state(conversation')
               = get_conversation_state(conversation)]_vars

\* C4 (Exclusion permanence): after a successful turn no item of
\* current_results has a key that is in excluded_dishes.
C4_ExclusionPermanence ==
  TurnSucceeded =>
    \A i \in 1..Len(conversation.current_results) :
      ~in_list(key_of(conversation.current_results[i]),
               conversation.excluded_dishes)

\* the turns of the session that succeeded: each one, and nothing else,
\* appends an assistant message to conversation_history
SucceededTurns ==
  Cardinality({i \in 1..Len(conversation.conversation_history) :
                 conversation.conversation_history[i].role = "assistant"})

\* C5: turn_count starts at 0 and is incremented once by every non-empty,
\* non-satisfied chat turn that succeeds: after k such turns of a session
\* turn_count = k.
C5_TurnCount == conversation.turn_count = SucceededTurns

\* C6: once is_satisfied is true, no chat call changes turn_count,
\* initial_query, conversation_history, current_results, liked_dishes,
\* excluded_dishes or all_suggested_dishes.
C6_TerminalFrozen ==
  [][(conversation.is_satisfied /\ call'.op = "chat")
       => /\ conversation'.turn_count = conversation.turn_count
          /\ conversation'.initial_query = conversation.initial_query
          /\ conversation'.conversation_history = conversation.conversation_history
          /\ conversation'.current_results = conversation.current_results
          /\ conversation'.liked_dishes = conversation.liked_dishes
          /\ conversation'.excluded_dishes = conversation.excluded_dishes
          /\ conversation'.all_suggested_dishes
               = conversation.all_suggested_dishes]_vars

\* C7: a chat turn whose text is detected as satisfaction sets is_satisfied,
\* and once it is set is_conversation_active() is false after every chat
\* call, until start_new_conversation is called.
C7_TerminalOneWay ==
  [][/\ (call'.op = "chat" /\ ~IsBlank(call'.user_input)
           /\ detect_satisfaction(call'.user_input))
          => conversation'.is_satisfied
     /\ (conversation.is_satisfied /\ call'.op = "chat")
          => ~is_conversation_active(conversation')]_vars

\* the conversation is satisfied and a later chat turn has searched and
\* succeeded
C7_Witness == conversation.is_satisfied /\ TurnSucceeded

\* C8: a chat call whose text is empty or only whitespace returns
\* no_response, does not call the oracle and leaves every field of the
\* conversation unchanged.
C8_EmptyInput ==
  [][(call'.op = "chat" /\ IsBlank(call'.user_input))
       => /\ response'.status = "no_response"
          /\ call'.oracle = "not_called"
          /\ conversation' = conversation]_vars

\* a whitespace-only chat call has returned, in a conversation that has
\* results and a history
C8_Witness ==
  /\ call.op = "chat"
  /\ call.user_input = <<" ", " ">>
  /\ response.status = "no_response"
  /\ conversation.current_results # <<>>
  /\ conversation.conversation_history # <<>>

\* C9: in every reachable state no key of excluded_dishes is the key of an
\* item of current_results.
C9_ExcludedDisjoint ==
  \A i \in 1..Len(conversation.current_results) :
    ~in_list(key_of(conversation.current_results[i]),
             conversation.excluded_dishes)

\* C10: when there are at most limit liked dishes, after a successful turn
\* the liked dishes are the first items of current_results, the new items
\* coming after them.
C10_PreservedSurvive ==
  (TurnSucceeded /\ Len(conversation.liked_dishes) <= call.limit) =>
    /\ Len(conversation.current_results) >= Len(conversation.liked_dishes)
    /\ {key_of(conversation.current_results[i]) :
          i \in 1..Len(conversation.liked_dishes)}
         = {key_of(conversation.liked_dishes[i]) :
              i \in 1..Len(conversation.liked_dishes)}

\* s is t with some of its items left out
RECURSIVE IsSubsequence(_, _)
IsSubsequence(s, t) ==
  IF s = <<>> THEN TRUE
  ELSE IF t = <<>> THEN FALSE
  ELSE IF Head(s) = Head(t) THEN IsSubsequence(Tail(s), Tail(t))
  ELSE IsSubsequence(s, Tail(t))

\* the items of a list of results whose status is preserved, and the others
PreservedGroup(results) ==
  SelectSeq(results, LAMBDA r : "status" \in DOMAIN r /\ r.status = "preserved")

OtherGroup(results) ==
  SelectSeq(results, LAMBDA r : ~("status" \in DOMAIN r /\ r.status = "preserved"))

\* the last call was a chat turn that succeeded, its reply kept in call.reply
RecordedTurnSucceeded ==
  /\ TurnSucceeded
  /\ "reply" \in DOMAIN call
  /\ call.reply.kind = "json"

\* C11 (Preserved-first ordering): after every successful turn every item of
\* current_results with status preserved comes before every item with
\* another status, and inside each of the two groups the items are in the
\* order of the oracle's reply.
C11_PreservedFirst ==
  RecordedTurnSucceeded =>
    /\ conversation.current_results
         = PreservedGroup(conversation.current_results)
             \o OtherGroup(conversation.current_results)
    /\ IsSubsequence(PreservedGroup(conversation.current_results),
                     PreservedGroup(call.reply.results))
    /\ IsSubsequence(OtherGroup(conversation.current_results),
                     OtherGroup(call.reply.results))

\* a turn succeeded whose reply had a new item ahead of a preserved one, and
\* both are in the selection
C11_Witness ==
  /\ RecordedTurnSucceeded
  /\ Len(call.reply.results) = 2
  /\ OtherGroup(call.reply.results) = <<call.reply.results[1]>>
  /\ PreservedGroup(call.reply.results) = <<call.reply.results[2]>>
  /\ Len(conversation.current_results) = 2

\* the text 'remove #2': a removal word and a reference by position
RemoveSecond == <<"r","e","m","o","v","e"," ","#","2">>

\* C12: on a chat turn with the text 'remove #2' that follows a successful
\* turn which showed at least two items, the key of the second item shown is
\* in excluded_dishes when the oracle is called and after the turn.
C12_LocalMutationFirst ==
  [][(/\ call'.op = "chat"
      /\ call'.user_input = RemoveSecond
      /\ call'.oracle # "not_called"
      /\ Len(conversation.current_results) >= 2)
       => /\ in_list(key_of(conversation.current_results[2]),
                     chat_begin(conversation, call'.user_input).excluded_dishes)
          /\ in_list(key_of(conversation.current_results[2]),
                     conversation'.excluded_dishes)]_vars

\* the candidate has the fields its identity key is made of
WellFormed(candidate) ==
  {"restaurant_name", "dish_name"} \subseteq DOMAIN candidate

\* C13: a chat turn whose reply holds a candidate without restaurant_name or
\* dish_name still succeeds; the selection holds no such candidate, and it
\* holds every well-formed candidate of the reply when they number at most
\* limit.
C13_MalformedDroppedAlone ==
  (/\ call.op = "chat"
   /\ "reply" \in DOMAIN call
   /\ call.reply.kind = "json"
   /\ \E i \in 1..Len(call.reply.results) : ~WellFormed(call.reply.results[i]))
    => /\ response.status = "success"
       /\ \A i \in 1..Len(conversation.current_results) :
            WellFormed(conversation.current_results[i])
       /\ Len(SelectSeq(call.reply.results, WellFormed)) <= call.limit
            => \A i \in 1..Len(call.reply.results) :
                 WellFormed(call.reply.results[i])
                   => \E j \in 1..Len(conversation.current_results) :
                        identity(conversation.current_results[j])
                          = identity(call.reply.results[i])

\* the items of the selection whose key is not the key of a liked dish
UnlikedSelection ==
  SelectSeq(conversation.current_results,
            LAMBDA r : \A i \in 1..Len(conversation.liked_dishes) :
                         identity(conversation.liked_dishes[i]) # identity(r))

\* C14: the status of a candidate is advisory only.  After a successful turn
\* the items of the selection whose key is not in liked_dishes are handled
\* as new items whatever status the oracle gave them: they are in the order
\* of the reply, none moved into the leading group, and they are subject to
\* truncation, so they number at most limit.
C14_StatusAdvisory ==
  RecordedTurnSucceeded =>
    /\ IsSubsequence(UnlikedSelection, call.reply.results)
    /\ Len(UnlikedSelection) <= call.limit

\* the text 'khinkali': a query, with no word of replacement in it
PlainQuery == <<"k","h","i","n","k","a","l","i">>

\* s is the beginning of t
IsPrefix(s, t) == Len(s) <= Len(t) /\ SubSeq(t, 1, Len(s)) = s

\* C15 (Append-new-only merge): on a successful turn that is not a
\* replacement request, where the selection before the turn and the
\* candidates of the reply together number at most limit, the items that
\* were in the selection and are not excluded are still in it after the
\* turn, ahead of the new candidates.
C15_AppendNewOnly ==
  [][(/\ call'.op = "chat"
      /\ call'.user_input = PlainQuery
      /\ response'.status = "success"
      /\ Len(conversation.current_results) + call'.received <= call'.limit)
       => IsPrefix(SelectSeq(conversation.current_results,
                             LAMBDA r : ~in_list(key_of(r),
                                                 conversation'.excluded_dishes)),
                   conversation'.current_results)]_vars

\* C16: in every reachable state the key of every item of current_results
\* is in all_suggested_dishes.
C16_SelectionSuggested ==
  \A i \in 1..Len(conversation.current_results) :
    /\ WellFormed(conversation.current_results[i])
    /\ in_list(key_of(conversation.current_results[i]),
               conversation.all_suggested_dishes)

\* a later turn succeeded: the selection is not empty, and more dishes have
\* been suggested than it holds
C16_Witness ==
  /\ TurnSucceeded
  /\ conversation.current_results # <<>>
  /\ Len(conversation.all_suggested_dishes) > Len(conversation.current_results)

RefersTo(text, n) ==
  \E prefix \in { <<"#">>, <<"i","t","e","m"," ">>,
                  <<"n","u","m","b","e","r"," ">> } :
    \E p \in 1..Len(text) :
      LET token == prefix \o str_int(n)
          end   == p + Len(token) - 1
      IN /\ end <= Len(text)
         /\ SubSeq(text, p, end) = token
         /\ end = Len(text) \/ ~in_list(text[end + 1], DigitChars)

\* the items of a list, as a set
Items(list) == {list[i] : i \in 1..Len(list)}

\* the step processes feedback: _process_feedback is called, by the client
\* or by chat
ProcessesFeedback ==
  \/ call'.op = "_process_feedback"
  \/ call'.op = "chat" /\ conversation.turn_count # 0

\* the feedback it processes
ProcessedFeedback ==
  IF call'.op = "_process_feedback" THEN call'.args[1] ELSE call'.user_input

\* C18: in feedback processing a reference '#N', 'item N' or 'number N'
\* targets the item at position N of current_results when 1 <= N <=
\* |current_results|, and no other item; a reference out of that range
\* targets no item.  So the dishes the feedback gets liked or excluded are
\* at the positions it refers to, and feedback with a removal word excludes
\* each of those.
C18_PositionalReference ==
  [][ProcessesFeedback =>
       LET text == lower(ProcessedFeedback)
           shown == conversation.current_results
           targets == {shown[n] : n \in {m \in 1..Len(shown) : RefersTo(text, m)}}
       IN /\ \A k \in Items(conversation'.excluded_dishes)
                        \ Items(conversation.excluded_dishes) :
               \E r \in targets : key_of(r) = k
          /\ Items(conversation'.liked_dishes) \ Items(conversation.liked_dishes)
               \subseteq targets
          /\ contains(text, <<"r","e","m","o","v","e">>)
               => \A r \in targets :
                    in_list(key_of(r), conversation'.excluded_dishes)]_vars

\* C19: like_dish(dish_dict) appends the dish to liked_dishes if its key is
\* not the key of a liked dish and not in excluded_dishes, and otherwise
\* leaves liked_dishes as it is; it never removes a liked dish.
C19_LikeUnlessExcluded ==
  [][call'.op = "like_dish" =>
       LET dish_dict == call'.args[1]
       IN IF /\ \A r \in Items(conversation.liked_dishes) :
                  identity(r) # identity(dish_dict)
             /\ ~in_list(key_of(dish_dict), conversation.excluded_dishes)
          THEN conversation'.liked_dishes
                 = Append(conversation.liked_dishes, dish_dict)
          ELSE conversation'.liked_dishes = conversation.liked_dishes]_vars

\* C20: on a refinement turn the number of new dishes the prompt asks the
\* oracle for is limit minus the number of dishes kept, floored at 1; it is
\* never 0 or negative.
C20_RequestedFloor ==
  (/\ call.op = "chat"
   /\ call.oracle # "not_called"
   /\ call.prompt.prompt_type = "REFINEMENT SEARCH")
    => /\ call.prompt.find >= 1
       /\ call.prompt.find
            = IF call.limit - call.prompt.preserve >= 1
              THEN call.limit - call.prompt.preserve ELSE 1

\* C21: conversation_history is bounded: after any sequence of turns it holds
\* at most the last K entries, older ones being trimmed when a turn is
\* appended, for a small K of 3 to 4; so it never holds more than 4.
C21_HistoryBounded == Len(conversation.conversation_history) <= 4

\* C22: initial_query is set by the first non-empty, non-satisfied turn of a
\* session and no later chat turn of the session changes it: a chat call
\* made after such a turn (the history holds its message) leaves
\* initial_query as it was.
C22_InitialQueryOnce ==
  [][(call'.op = "chat" /\ conversation.conversation_history # <<>>)
       => conversation'.initial_query = conversation.initial_query]_vars

\* the text 'keep all, remove #2': a keyword-preservation phrase and an
\* explicit removal by reference
KeepAllRemoveSecond ==
  <<"k","e","e","p"," ","a","l","l",","," ","r","e","m","o","v","e"," ","#","2">>

\* C23: a feedback turn has one intent, explicit removal coming before
\* keyword preservation: feedback that matches both, processed when at least
\* two items are shown, excludes the item it refers to and preserves
\* nothing.
C23_IntentPriority ==
  [][(/\ ProcessesFeedback
      /\ ProcessedFeedback = KeepAllRemoveSecond
      /\ Len(conversation.current_results) >= 2)
       => /\ in_list(key_of(conversation.current_results[2]),
                     conversation'.excluded_dishes)
          /\ conversation'.liked_dishes = conversation.liked_dishes]_vars

\* C24: start_new_conversation(preferences) replaces the whole conversation,
\* from any prior state: afterwards turn_count is 0, is_satisfied is false,
\* initial_query, conversation_history, current_results, liked_dishes,
\* excluded_dishes and all_suggested_dishes are empty, and user_preferences
\* is the argument.
C24_FullReset ==
  [][call'.op = "start_new_conversation" =>
       conversation' = [conversation_history |-> <<>>,
                        current_results      |-> <<>>,
                        excluded_dishes      |-> <<>>,
                        liked_dishes         |-> <<>>,
                        all_suggested_dishes |-> <<>>,
                        user_preferences     |-> call'.preferences,
                        initial_query        |-> <<>>,
                        turn_count           |-> 0,
                        is_satisfied         |-> FALSE]]_vars

\* the conversation has counted turns, is satisfied, and has results, liked
\* and excluded dishes: a prior state of which start_new_conversation has
\* every field to reset
C24_Witness ==
  /\ conversation.turn_count > 0
  /\ conversation.is_satisfied
  /\ conversation.current_results # <<>>
  /\ conversation.liked_dishes # <<>>
  /\ conversation.excluded_dishes # <<>>

C26_LikedNotExcluded ==
  \A r \in Items(conversation.liked_dishes) :
    ~in_list(key_of(r), conversation.excluded_dishes)

\* C27: duplicates are removed before the limit is applied: after a
\* successful turn whose reply has no candidate with status preserved, the
\* selection has min(limit, number of distinct keys of the reply) items.
C27_DedupBeforeLimit ==
  (RecordedTurnSucceeded /\ PreservedGroup(call.reply.results) = <<>>)
    => LET distinct == Cardinality({identity(r) : r \in Items(call.reply.results)})
       IN Len(conversation.current_results)
            = IF call.limit < distinct THEN call.limit ELSE distinct

\* C28: every chat response that carries conversation_complete reports the
\* terminal flag: its value is is_satisfied after the call, that is, not
\* is_conversation_active(), also on turns made after satisfaction was
\* reached.
C28_CompleteIsSatisfied ==
  (call.op = "chat" /\ "conversation_complete" \in DOMAIN response)
    => response.conversation_complete = ~is_conversation_active(conversation)

\* C29: only shown dishes can be liked or excluded: the key of every item of
\* liked_dishes and every key of excluded_dishes is in
\* all_suggested_dishes, which holds no key twice and never loses a key.
C29_OnlyShownDishes ==
  [][/\ \A r \in Items(conversation'.liked_dishes) :
          in_list(key_of(r), conversation'.all_suggested_dishes)
     /\ \A k \in Items(conversation'.excluded_dishes) :
          in_list(k, conversation'.all_suggested_dishes)
     /\ \A i, j \in 1..Len(conversation'.all_suggested_dishes) :
          i # j => conversation'.all_suggested_dishes[i]
                     # conversation'.all_suggested_dishes[j]
     /\ call'.op # "start_new_conversation"
          => Items(conversation.all_suggested_dishes)
               \subseteq Items(conversation'.all_suggested_dishes)]_vars


C29_Witness ==
  /\ call.op = "chat"
  /\ response.status = "success"
  /\ conversation.liked_dishes # <<>>
  /\ conversation.excluded_dishes # <<>>
  /\ Len(conversation.all_suggested_dishes) >= 2
  /\ \E i \in 1..Len(conversation.conversation_history) :
       /\ conversation.conversation_history[i].role = "assistant"
       /\ i < Len(conversation.conversation_history)


\* C30: a chat turn that returns status error (the oracle raised, its reply
\* could not be parsed, or the merge raised on it) leaves current_results
\* and all_suggested_dishes as they were before the call.
C30_ErrorKeepsSelection ==
  [][(call'.op = "chat" /\ response'.status = "error")
       => /\ conversation'.current_results = conversation.current_results
          /\ conversation'.all_suggested_dishes
               = conversation.all_suggested_dishes]_vars

C30_Witness ==
  /\ call.op = "chat"
  /\ response.status = "error"
  /\ call.oracle = "json"
  /\ conversation.current_results # <<>>
  /\ conversation.all_suggested_dishes # <<>>






















====
